---- MODULE Spec2Model ----
(***************************************************************************)
(* The authorship-blame pipeline of src/main.ts.                           *)
(*                                                                         *)
(*   Spec             one call of getSegmentFromHistory followed by        *)
(*                    convert_segment_to_groups, stepped per loop          *)
(*                    iteration (boundary scan, boundary pair, diff run).  *)
(*   SpecBuild        one call of buildDecorations: fetch, reverse,        *)
(*                    attribute, compress, return.                         *)
(*   SpecRebuild      the view plugin: overlapping updateDecorations       *)
(*                    tasks, each suspended at the fetch.                  *)
(*   FairSpecRebuild  SpecRebuild with every pending fetch resolving.      *)
(*                                                                         *)
(* Text is a sequence of one-character strings; JavaScript indices are     *)
(* kept 0-based as values and shifted by one when a sequence is read.      *)
(***************************************************************************)
EXTENDS Integers, Sequences, FiniteSets, TLC

VARIABLES
    history,         \* Spec: the argument of getSegmentFromHistory
    pc,              \* Spec: position inside the call
    change_indices,  \* Spec: the boundary index list
    current_index,   \* Spec: cursor of the boundary while-loop
    i,               \* Spec: index of the boundary pair being processed
    diff,            \* Spec: the changes of the current pair not yet replayed
    offset,          \* Spec: the write cursor of the current pair
    segments,        \* Spec: the label buffer
    groups,          \* Spec: the result of convert_segment_to_groups
    items,           \* SpecBuild: history.items as the sync backend returns them
    bpc,             \* SpecBuild: position inside buildDecorations
    fetched,         \* SpecBuild: the value of getFileVersions
    handed,          \* SpecBuild: the list passed to getSegmentFromHistory
    built,           \* SpecBuild: the ranges of the returned decoration set
    rpc,             \* SpecRebuild: state of each updateDecorations task
    result,          \* SpecRebuild: what each task's buildDecorations returned
    decorations,     \* SpecRebuild: the view plugin's decorations field
    finished         \* SpecRebuild: the tasks in the order they completed

segVars == <<history, pc, change_indices, current_index, i, diff, offset,
             segments, groups>>
buildVars == <<items, bpc, fetched, handed, built>>
rebuildVars == <<rpc, result, decorations, finished>>
vars == <<segVars, buildVars, rebuildVars>>

(***************************************************************************)
(* Bounds of the model.                                                    *)
(***************************************************************************)
MaxHist == 2
MaxLen == 2
MaxTime == 2
MaxItems == 2
MaxDocLen == 1
MaxRebuilds == 3

\* Values that stand for "no snapshot list", "no group list" and "no
\* content".  They have the shape of the values they stand in for, and no
\* list or text of the program equals them.
Missing == <<"undefined">>
NoList == <<[user |-> "", content |-> Missing]>>
NoGroups == <<[start |-> -1, end |-> -1, char |-> "undefined"]>>
Undefined == "undefined"

Bean == "bean_machine"
Bident == "Bident-of-Thassa.local"
Other == "laptop"
Users == {Bean, Bident, Other}
KnownUsers == {Bean, Bident}

Alphabet == {"a", "b"}

RECURSIVE TextsOfLen(_)
TextsOfLen(n) ==
    IF n = 0 THEN {<<>>}
    ELSE {<<c>> \o t : c \in Alphabet, t \in TextsOfLen(n - 1)}

Texts(n) == UNION {TextsOfLen(k) : k \in 0..n}

(***************************************************************************)
(* String helpers of JavaScript.                                           *)
(***************************************************************************)
Min(S) == CHOOSE x \in S : \A y \in S : x <= y

Max(S) == CHOOSE x \in S : \A y \in S : x >= y

\* String.prototype.repeat
Repeat(c, n) == [k \in 1..n |-> c]

\* String.prototype.slice: negative indices count from the end, both ends
\* are clamped to the string.
Slice(s, start, end) ==
    LET len == Len(s)
        from == IF start < 0 THEN Max({len + start, 0}) ELSE Min({start, len})
        to == IF end < 0 THEN Max({len + end, 0}) ELSE Min({end, len})
    IN  IF from < to THEN SubSeq(s, from + 1, to) ELSE <<>>

\* the list is left in the order it was fetched
reverse_missing(h) == h

\* Array.prototype.reverse
reverse(h) == [k \in 1..Len(h) |-> h[Len(h) + 1 - k]]

(***************************************************************************)
(* getCharFromUser, replace_chars, findNextChangeIndex.                    *)
(***************************************************************************)
getCharFromUser(user) ==
    IF user = Bean THEN "b"
    ELSE IF user = Bident THEN "T"
    ELSE "_"

\* the tail is taken from start_index, so the labels are inserted and
\* nothing is overwritten
replace_chars_insert(s, char, start_index, length) ==
    LET padded == IF start_index + length > Len(s)
                  THEN s \o Repeat("_", start_index + length - Len(s))
                  ELSE s
        fill == IF char = "" THEN <<>> ELSE Repeat(char, length)
    IN  Slice(padded, 0, start_index)
            \o fill
            \o Slice(padded, start_index, Len(padded))

\* char is "" (a removal) or a one-character label.
replace_chars(s, char, start_index, length) ==
    LET padded == IF start_index + length > Len(s)
                  THEN s \o Repeat("_", start_index + length - Len(s))
                  ELSE s
        fill == IF char = "" THEN <<>> ELSE Repeat(char, length)
    IN  Slice(padded, 0, start_index)
            \o fill
            \o Slice(padded, start_index + length, Len(padded))

findNextChangeIndex(h, startingIndex) ==
    LET later == {k \in (startingIndex + 1)..(Len(h) - 1) :
                     h[k + 1].user # h[startingIndex + 1].user}
    IN  IF later = {} THEN Len(h) ELSE Min(later)

(***************************************************************************)
(* Diff.diffChars of the diff package.  The package computes a shortest    *)
(* edit script with Myers' algorithm: it follows every run of matching     *)
(* characters as far as it goes before it branches, and it reports the     *)
(* removals of a change block before its insertions.  Which of several     *)
(* shortest scripts it returns depends on the package version, so          *)
(* diffChars is the set of them.                                           *)
(***************************************************************************)
RECURSIVE EditPaths(_, _, _, _)
EditPaths(old, new, x, y) ==
    IF x = Len(old) /\ y = Len(new) THEN {<<>>}
    ELSE IF x < Len(old) /\ y < Len(new) /\ old[x + 1] = new[y + 1]
    THEN {<<"=">> \o p : p \in EditPaths(old, new, x + 1, y + 1)}
    ELSE (IF x < Len(old)
          THEN {<<"-">> \o p : p \in EditPaths(old, new, x + 1, y)}
          ELSE {})
         \cup
         (IF y < Len(new)
          THEN {<<"+">> \o p : p \in EditPaths(old, new, x, y + 1)}
          ELSE {})

EditCount(p) == Cardinality({k \in 1..Len(p) : p[k] # "="})

ShortestPaths(old, new) ==
    LET all == EditPaths(old, new, 0, 0)
        best == Min({EditCount(p) : p \in all})
    IN  {p \in all : EditCount(p) = best}

\* The length of the longest prefix of p made of "=" (eq = TRUE) or of
\* edits (eq = FALSE).
RECURSIVE RunLen(_, _)
RunLen(p, eq) ==
    IF p = <<>> \/ ((Head(p) = "=") # eq) THEN 0
    ELSE 1 + RunLen(Tail(p), eq)

Change(added, removed, count) ==
    [added |-> added, removed |-> removed, count |-> count]

RECURSIVE Components(_)
Components(p) ==
    IF p = <<>> THEN <<>>
    ELSE IF Head(p) = "="
    THEN LET n == RunLen(p, TRUE)
         IN  <<Change(FALSE, FALSE, n)>> \o Components(SubSeq(p, n + 1, Len(p)))
    ELSE LET n == RunLen(p, FALSE)
             del == Cardinality({k \in 1..n : p[k] = "-"})
             ins == n - del
         IN  (IF del > 0 THEN <<Change(FALSE, TRUE, del)>> ELSE <<>>)
                 \o (IF ins > 0 THEN <<Change(TRUE, FALSE, ins)>> ELSE <<>>)
                 \o Components(SubSeq(p, n + 1, Len(p)))

diffChars(old, new) == {Components(p) : p \in ShortestPaths(old, new)}

(***************************************************************************)
(* The body of diff.forEach in getSegmentFromHistory: one change applied   *)
(* to the buffer and the cursor.                                           *)
(***************************************************************************)
ApplyChange(segs, off, change, prev_user, next_user) ==
    IF change.added
    THEN [segments |-> replace_chars(segs, getCharFromUser(next_user), off,
                                     change.count),
          offset |-> off + change.count]
    ELSE IF change.removed
    THEN [segments |-> replace_chars(segs, "", off, change.count),
          offset |-> off - change.count]
    ELSE [segments |-> replace_chars(segs, getCharFromUser(prev_user), off,
                                     change.count),
          offset |-> off + change.count]

(***************************************************************************)
(* convert_segment_to_groups.  The first group is built from segments[0]   *)
(* before the loop, whatever the length of segments.  Colours are left     *)
(* out: a group is its range and its label.                                *)
(***************************************************************************)
Group(start, end, char) == [start |-> start, end |-> end, char |-> char]

RECURSIVE GroupLoop(_, _, _)
GroupLoop(segs, k, gs) ==
    IF k >= Len(segs) THEN gs
    ELSE IF gs[Len(gs)].char = segs[k + 1]
    THEN GroupLoop(segs, k + 1,
                   [gs EXCEPT ![Len(gs)].end = gs[Len(gs)].end + 1])
    ELSE GroupLoop(segs, k + 1, Append(gs, Group(k, k + 1, segs[k + 1])))

\* the loop starts at index 0 and counts segments[0] twice
convert_segment_to_groups_loopFromZero(segs) ==
    LET first == IF Len(segs) > 0 THEN segs[1] ELSE Undefined
    IN  GroupLoop(segs, 0, <<Group(0, 1, first)>>)

convert_segment_to_groups(segs) ==
    LET first == IF Len(segs) > 0 THEN segs[1] ELSE Undefined
    IN  GroupLoop(segs, 1, <<Group(0, 1, first)>>)

(***************************************************************************)
(* getSegmentFromHistory as a function of the history: the set of buffers  *)
(* it can return (one per choice of edit scripts; none when diffChars       *)
(* throws on a missing content).                                            *)
(***************************************************************************)
RECURSIVE ScanLoop(_, _, _)
ScanLoop(h, current, acc) ==
    IF current = Len(h) THEN Append(acc, Len(h))
    ELSE LET next_index == findNextChangeIndex(h, current)
         IN  ScanLoop(h, next_index, Append(acc, next_index))

RECURSIVE ReplayDiff(_, _, _, _, _)
ReplayDiff(segs, off, d, prev_user, next_user) ==
    IF d = <<>> THEN segs
    ELSE LET after == ApplyChange(segs, off, Head(d), prev_user, next_user)
         IN  ReplayDiff(after.segments, after.offset, Tail(d), prev_user,
                        next_user)

RECURSIVE PairLoop(_, _, _, _)
PairLoop(h, ci, k, segs) ==
    IF k >= Len(ci) - 1 THEN {segs}
    ELSE LET p == h[ci[k + 1]]
             n == h[ci[k + 2]]
         IN  IF p.user = n.user THEN PairLoop(h, ci, k + 1, segs)
             ELSE IF p.content = Missing \/ n.content = Missing THEN {}
             ELSE UNION {PairLoop(h, ci, k + 1,
                                  ReplayDiff(segs, 0, d, p.user, n.user)) :
                             d \in diffChars(p.content, n.content)}

getSegmentFromHistory(h) == PairLoop(h, ScanLoop(h, 0, <<>>), 0, <<>>)

(***************************************************************************)
(* getFileVersions and buildDecorations.  A backend item is the device,    *)
(* the modification time and the decoded text of one version.              *)
(* buildDecorations is given the value of getFileVersions and yields the   *)
(* list it hands to getSegmentFromHistory (NoList when it does not call it)   *)
(* and the ranges added to the builder.                                    *)
(***************************************************************************)
getFileVersions(its) ==
    [k \in 1..Len(its) |->
        [user |-> its[k].device, content |-> its[k].content]]

Outcome(list, ranges) == [handed |-> list, ranges |-> ranges]

\* the guard history.length > 1 weakened to history.length > 0
buildDecorations_noLengthGuard(h) ==
    IF Len(h) = 0 THEN {Outcome(NoList, <<>>)}
    ELSE LET ordered == reverse(h)
         IN  {Outcome(ordered, convert_segment_to_groups(segment)) :
                  segment \in getSegmentFromHistory(ordered)}

buildDecorations(h) ==
    IF Len(h) = 0 THEN {Outcome(NoList, <<>>)}
    ELSE IF Len(h) > 1
    THEN LET ordered == reverse(h)
         IN  {Outcome(ordered, convert_segment_to_groups(segment)) :
                  segment \in getSegmentFromHistory(ordered)}
    ELSE {Outcome(NoList, <<>>)}

(***************************************************************************)
(* Spec: getSegmentFromHistory and convert_segment_to_groups on one        *)
(* history.  buildDecorations calls them on lists of more than one         *)
(* snapshot; content is optional in HistoryItem.                           *)
(***************************************************************************)
Snapshot(user, content) == [user |-> user, content |-> content]

Snapshots == {Snapshot(u, c) : u \in Users, c \in Texts(MaxLen) \cup {Missing}}

Hello == <<"h", "e", "l", "l", "o">>

HelloWorld == Hello \o <<" ", "w", "o", "r", "l", "d">>

\* "abcde" -> "ace"
DeletionCase(A, B) ==
    <<Snapshot(A, <<"a", "b", "c", "d", "e">>), Snapshot(B, <<"a", "c", "e">>)>>

\* "ab" -> "axb" -> "axyb"
ThreeSnapshotCase(A, B) ==
    <<Snapshot(A, <<"a", "b">>), Snapshot(B, <<"a", "x", "b">>),
      Snapshot(A, <<"a", "x", "y", "b">>)>>

\* "hello" -> "hello world"
AppendCase(A, B) == <<Snapshot(A, Hello), Snapshot(B, HelloWorld)>>

\* runs of several snapshots per author
RunsCase(A, B) ==
    <<Snapshot(A, <<"a">>), Snapshot(A, <<"a", "b">>), Snapshot(B, <<"b">>),
      Snapshot(B, <<"b", "b">>), Snapshot(A, <<"a", "b">>)>>

ScenariosOf(A, B) ==
    {DeletionCase(A, B), ThreeSnapshotCase(A, B), AppendCase(A, B),
     RunsCase(A, B)}

Scenarios == ScenariosOf(Bean, Bident) \cup ScenariosOf(Bident, Bean)

Histories == UNION {[1..n -> Snapshots] : n \in 2..MaxHist} \cup Scenarios

\* history[change_indices[i] - 1] and history[change_indices[i + 1] - 1]
prev_hist == history[change_indices[i + 1]]

next_hist == history[change_indices[i + 2]]

IdleBuild ==
    /\ items = <<>>
    /\ bpc = "none"
    /\ fetched = <<>>
    /\ handed = NoList
    /\ built = <<>>

IdleRebuild ==
    /\ rpc = <<>>
    /\ result = <<>>
    /\ decorations = <<>>
    /\ finished = <<>>

Init ==
    /\ history \in Histories
    /\ pc = "scan"
    /\ change_indices = <<>>
    /\ current_index = 0
    /\ i = 0
    /\ diff = <<>>
    /\ offset = 0
    /\ segments = <<>>
    /\ groups = NoGroups
    /\ IdleBuild
    /\ IdleRebuild

\* one iteration of the while loop
ScanBoundary ==
    /\ pc = "scan"
    /\ current_index # Len(history)
    /\ LET next_index == findNextChangeIndex(history, current_index)
       IN  /\ change_indices' = Append(change_indices, next_index)
           /\ current_index' = next_index
    /\ UNCHANGED <<history, pc, i, diff, offset, segments, groups,
                   buildVars, rebuildVars>>

\* change_indices.push(history.length) after the loop
PushLength ==
    /\ pc = "scan"
    /\ current_index = Len(history)
    /\ change_indices' = Append(change_indices, Len(history))
    /\ pc' = "pairs"
    /\ i' = 0
    /\ UNCHANGED <<history, current_index, diff, offset, segments, groups,
                   buildVars, rebuildVars>>

\* a pair whose snapshots have the same user is passed over
SamePair ==
    /\ pc = "pairs"
    /\ i < Len(change_indices) - 1
    /\ prev_hist.user = next_hist.user
    /\ i' = i + 1
    /\ UNCHANGED <<history, pc, change_indices, current_index, diff, offset,
                   segments, groups,
                   buildVars, rebuildVars>>

StartDiff ==
    /\ pc = "pairs"
    /\ i < Len(change_indices) - 1
    /\ prev_hist.user # next_hist.user
    /\ prev_hist.content # Missing
    /\ next_hist.content # Missing
    /\ diff' \in diffChars(prev_hist.content, next_hist.content)
    /\ offset' = 0
    /\ pc' = "replay"
    /\ UNCHANGED <<history, change_indices, current_index, i, segments, groups,
                   buildVars, rebuildVars>>

\* Diff.diffChars tokenizes both arguments: on undefined it throws a
\* TypeError, which nothing up to updateDecorations catches.
DiffThrows ==
    /\ pc = "pairs"
    /\ i < Len(change_indices) - 1
    /\ prev_hist.user # next_hist.user
    /\ (prev_hist.content = Missing \/ next_hist.content = Missing)
    /\ pc' = "thrown"
    /\ UNCHANGED <<history, change_indices, current_index, i, diff, offset,
                   segments, groups,
                   buildVars, rebuildVars>>

ReplayChange ==
    /\ pc = "replay"
    /\ diff # <<>>
    /\ LET after == ApplyChange(segments, offset, Head(diff), prev_hist.user,
                                next_hist.user)
       IN  /\ segments' = after.segments
           /\ offset' = after.offset
    /\ diff' = Tail(diff)
    /\ UNCHANGED <<history, pc, change_indices, current_index, i, groups,
                   buildVars, rebuildVars>>

EndPair ==
    /\ pc = "replay"
    /\ diff = <<>>
    /\ i' = i + 1
    /\ pc' = "pairs"
    /\ UNCHANGED <<history, change_indices, current_index, diff, offset,
                   segments, groups,
                   buildVars, rebuildVars>>

ReturnSegments ==
    /\ pc = "pairs"
    /\ i >= Len(change_indices) - 1
    /\ pc' = "convert"
    /\ UNCHANGED <<history, change_indices, current_index, i, diff, offset,
                   segments, groups,
                   buildVars, rebuildVars>>

ConvertSegmentToGroups ==
    /\ pc = "convert"
    /\ groups' = convert_segment_to_groups(segments)
    /\ pc' = "done"
    /\ UNCHANGED <<history, change_indices, current_index, i, diff, offset,
                   segments,
                   buildVars, rebuildVars>>

Next ==
    \/ ScanBoundary
    \/ PushLength
    \/ SamePair
    \/ StartDiff
    \/ DiffThrows
    \/ ReplayChange
    \/ EndPair
    \/ ReturnSegments
    \/ ConvertSegmentToGroups

Spec == Init /\ [][Next]_vars

(***************************************************************************)
(* SpecBuild: one call of buildDecorations.  The backend returns its list  *)
(* in an order the plugin does not control.                                *)
(***************************************************************************)
BackendItems ==
    {[device |-> u, ts |-> t, content |-> c] :
         u \in KnownUsers, t \in 1..MaxTime, c \in Texts(MaxDocLen)}

BackendHistories == UNION {[1..n -> BackendItems] : n \in 0..MaxItems}

IdleSegment ==
    /\ history = <<>>
    /\ pc = "none"
    /\ change_indices = <<>>
    /\ current_index = 0
    /\ i = 0
    /\ diff = <<>>
    /\ offset = 0
    /\ segments = <<>>
    /\ groups = NoGroups

InitBuild ==
    /\ items \in BackendHistories
    /\ bpc = "fetch"
    /\ fetched = <<>>
    /\ handed = NoList
    /\ built = <<>>
    /\ IdleSegment
    /\ IdleRebuild

\* no active markdown leaf: Decoration.none without a fetch
NoActiveLeaf ==
    /\ bpc = "fetch"
    /\ bpc' = "done"
    /\ UNCHANGED <<items, fetched, handed, built, segVars, rebuildVars>>

\* no sync plugin, no file or no history: getFileVersions returns []
NoHistory ==
    /\ bpc = "fetch"
    /\ fetched' = <<>>
    /\ bpc' = "build"
    /\ UNCHANGED <<items, handed, built, segVars, rebuildVars>>

FetchVersions ==
    /\ bpc = "fetch"
    /\ fetched' = getFileVersions(items)
    /\ bpc' = "build"
    /\ UNCHANGED <<items, handed, built, segVars, rebuildVars>>

BuildDecorations ==
    /\ bpc = "build"
    /\ \E o \in buildDecorations(fetched) :
           /\ handed' = o.handed
           /\ built' = o.ranges
    /\ bpc' = "done"
    /\ UNCHANGED <<items, fetched, segVars, rebuildVars>>

NextBuild ==
    \/ NoActiveLeaf
    \/ NoHistory
    \/ FetchVersions
    \/ BuildDecorations

SpecBuild == InitBuild /\ [][NextBuild]_vars

(***************************************************************************)
(* SpecRebuild: the view plugin.  The constructor starts the first         *)
(* updateDecorations; update starts another one on a document or viewport  *)
(* change.  Each is suspended at the fetch inside buildDecorations and     *)
(* assigns this.decorations when it resumes.                               *)
(***************************************************************************)
Rebuilds == 1..MaxRebuilds

PossibleDecorations ==
    UNION {{o.ranges : o \in buildDecorations(getFileVersions(its))} :
               its \in BackendHistories}

InitRebuild ==
    /\ rpc = [r \in Rebuilds |-> IF r = 1 THEN "fetching" ELSE "idle"]
    /\ result = [r \in Rebuilds |-> NoGroups]
    /\ decorations = <<>>
    /\ finished = <<>>
    /\ IdleSegment
    /\ IdleBuild

update ==
    /\ \E r \in Rebuilds : rpc[r] = "idle"
    /\ \E docChanged \in BOOLEAN, viewportChanged \in BOOLEAN :
           IF docChanged \/ viewportChanged
           THEN LET r == Min({q \in Rebuilds : rpc[q] = "idle"})
                IN  rpc' = [rpc EXCEPT ![r] = "fetching"]
           ELSE rpc' = rpc
    /\ UNCHANGED <<result, decorations, finished, segVars, buildVars>>

\* a rebuild's result is dropped when a later rebuild has been started
Assign_dropSuperseded(r, d) ==
    decorations' = IF \E q \in Rebuilds : q > r /\ rpc[q] # "idle"
                   THEN decorations
                   ELSE d

\* this.decorations = await plugin.buildDecorations(view)
Assign(r, d) == decorations' = d

updateDecorations(r) ==
    /\ rpc[r] = "fetching"
    /\ \E d \in PossibleDecorations :
           /\ result' = [result EXCEPT ![r] = d]
           /\ Assign(r, d)
    /\ rpc' = [rpc EXCEPT ![r] = "done"]
    /\ finished' = Append(finished, r)
    /\ UNCHANGED <<segVars, buildVars>>

NextRebuild ==
    \/ update
    \/ \E r \in Rebuilds : updateDecorations(r)

SpecRebuild == InitRebuild /\ [][NextRebuild]_vars

\* The backend answers every fetch, so a suspended rebuild resumes.
FairSpecRebuild ==
    SpecRebuild /\ \A r \in Rebuilds : WF_vars(updateDecorations(r))

\* The stepped call returns what the function returns.
StepsAgreeWithFunction ==
    pc = "done"
        => /\ segments \in getSegmentFromHistory(history)
           /\ change_indices = ScanLoop(history, 0, <<>>)

(***************************************************************************)
(* Claims about getSegmentFromHistory and convert_segment_to_groups.       *)
(***************************************************************************)
\* The groups gs are sorted, each non-empty, contiguous from 0 and end at n
\* (no group at all when n = 0).
IsPartition(gs, n) ==
    IF n = 0 THEN gs = <<>>
    ELSE /\ Len(gs) >= 1
         /\ gs[1].start = 0
         /\ gs[Len(gs)].end = n
         /\ \A k \in 1..Len(gs) : gs[k].start < gs[k].end
         /\ \A k \in 1..(Len(gs) - 1) : gs[k + 1].start = gs[k].end

\* C1: for a history of more than one snapshot the groups returned for a
\* label buffer of length N partition [0, N): sorted, non-empty, contiguous
\* from 0 to N, and there is no group when N = 0.
C1_GroupsPartitionBuffer ==
    pc = "done" => IsPartition(groups, Len(segments))

\* C2: when the edit script of a pair with different authors has been
\* replayed the buffer is as long as the content of next, and the history
\* "abcde" (A) -> "ace" (B) returns a buffer of length 3.
C2_BufferLengthIsNextContentLength ==
    /\ (pc = "replay" /\ diff = <<>>)
           => Len(segments) = Len(next_hist.content)
    /\ (pc = "done" /\ history \in {DeletionCase(Bean, Bident),
                                    DeletionCase(Bident, Bean)})
           => Len(segments) = 3

\* C3 as stated: A:"ab", B:"axb", A:"axyb" returns the labels A, B, A, A.
C3_ThreeSnapshotLabelsABAA ==
    \A A \in KnownUsers : \A B \in KnownUsers \ {A} :
        (pc = "done" /\ history = ThreeSnapshotCase(A, B))
            => segments = <<getCharFromUser(A), getCharFromUser(B),
                            getCharFromUser(A), getCharFromUser(A)>>

\* C3 as amended: A:"ab", B:"axb", A:"axyb" returns a buffer of length 4
\* with the labels B, B, A, B: the second pair relabels its equal runs with
\* its outgoing author B and overwrites index 2 with A.
C3_ThreeSnapshotLabelsBBAB ==
    \A A \in KnownUsers : \A B \in KnownUsers \ {A} :
        (pc = "done" /\ history = ThreeSnapshotCase(A, B))
            => segments = <<getCharFromUser(B), getCharFromUser(B),
                            getCharFromUser(A), getCharFromUser(B)>>

C3_Witness ==
    /\ pc = "done"
    /\ history = ThreeSnapshotCase(Bean, Bident)
    /\ Len(segments) = 4

\* C5: a pair that needs a missing content leaves the buffer unchanged and
\* the call goes on with the next pair.
C5_MissingContentSkipsPair ==
    [][(/\ pc = "pairs"
        /\ i < Len(change_indices) - 1
        /\ prev_hist.user # next_hist.user
        /\ (prev_hist.content = Missing \/ next_hist.content = Missing))
           => (pc' = "pairs" /\ i' = i + 1 /\ segments' = segments)]_vars

\* h is: known author A wrote p, another known author B wrote p followed
\* by an appended suffix, both parts non-empty.
IsAppend(h) ==
    /\ Len(h) = 2
    /\ h[1].user \in KnownUsers
    /\ h[2].user \in KnownUsers
    /\ h[1].user # h[2].user
    /\ h[1].content # Missing
    /\ h[2].content # Missing
    /\ Len(h[1].content) > 0
    /\ Len(h[2].content) > Len(h[1].content)
    /\ SubSeq(h[2].content, 1, Len(h[1].content)) = h[1].content

\* C8: A writes p, B appends s: the groups are exactly (0, |p|, A) and
\* (|p|, |p| + |s|, B).
C8_AppendGivesTwoGroups ==
    (pc = "done" /\ IsAppend(history))
        => groups = <<Group(0, Len(history[1].content),
                            getCharFromUser(history[1].user)),
                      Group(Len(history[1].content), Len(history[2].content),
                            getCharFromUser(history[2].user))>>

C8_Witness ==
    /\ pc = "done"
    /\ history = AppendCase(Bean, Bident)
    /\ groups = <<Group(0, 5, "b"), Group(5, 11, "T")>>

\* C9: the boundary index list is strictly increasing and ends with the
\* length of the history.
C9_BoundariesStrictlyIncreasing ==
    pc # "scan"
        => /\ \A k \in 1..(Len(change_indices) - 1) :
                  change_indices[k] < change_indices[k + 1]
           /\ change_indices[Len(change_indices)] = Len(history)

\* C10: a deleted(L) run at cursor offset removes the L labels at
\* [offset, offset + L) and leaves the cursor where it was.
C10_DeletedRunKeepsCursor ==
    [][(pc = "replay" /\ diff # <<>> /\ Head(diff).removed)
           => /\ offset' = offset
              /\ segments' = SubSeq(segments, 1, offset)
                     \o SubSeq(segments, offset + Head(diff).count + 1,
                               Len(segments))]_vars

(***************************************************************************)
(* Claims about buildDecorations and the view plugin.                      *)
(***************************************************************************)
\* No rebuild is in flight and at least one has completed.
AllCompleted ==
    /\ finished # <<>>
    /\ \A r \in Rebuilds : rpc[r] # "fetching"

C6_NoGroupsForShortHistory ==
    (bpc = "done" /\ Len(fetched) <= 1) => built = <<>>

C6_Witness ==
    /\ bpc = "done"
    /\ Len(fetched) = 1
    /\ fetched[1].content # <<>>
    /\ built = <<>>

\* perm orders its by non-decreasing timestamp and keeps the relative order
\* of equal timestamps.
IsStableSort(perm, its) ==
    /\ \A k \in 1..Len(its) : \E l \in 1..Len(its) : perm[l] = k
    /\ \A k \in 1..Len(its) : \A l \in (k + 1)..Len(its) :
           \/ its[perm[k]].ts < its[perm[l]].ts
           \/ (its[perm[k]].ts = its[perm[l]].ts /\ perm[k] < perm[l])

====
